---- MODULE Spec2Model ----
(***************************************************************************)
(* Tree traversal, duplicate-name resolution and batch execution of the    *)
(* Inventor tools:                                                         *)
(*                                                                         *)
(*   walk_assembly, _walk_recursive      inventor_api/traversal.py         *)
(*   resolve_duplicates                  inventor_export_tool/naming.py    *)
(*   ExportOrchestrator.export           inventor_export_tool              *)
(*   DrawingCreationOrchestrator.execute inventor_drawing_tool             *)
(*   SimplifyOrchestrator.run            inventor_simplify_tool            *)
(***************************************************************************)
EXTENDS Integers, Sequences, FiniteSets, TLC

(***************************************************************************)
(* Bounds of the model.                                                    *)
(***************************************************************************)
\* occurrences in a whole input graph (plain occurrences)
MaxOccTotal == 3
\* occurrences in a whole input graph (occurrences with suppression and
\* unresolvable references)
MaxOccRich == 2
\* occurrences in a whole input graph walked with max_depth=2
MaxOccDeep == 4
\* largest finite max_depth passed to walk_assembly
MaxDepthOpt == 2
\* nested calls the interpreter allows before raising RecursionError
RecursionLimit == 4
\* items in a batch
MaxItems == 3
\* characters in a name given to sanitize_filename
MaxNameLen == 3
\* files handed to NetworkTransport.enqueue
MaxFiles == 3
\* calls of NetworkTransport.stop
MaxStops == 2
\* calls of ExportOrchestrator.scan on one orchestrator
MaxScans == 2
\* worker threads the export tab starts
MaxWorkers == 3
\* log and progress messages waiting in the export tab's queue
MaxQueue == 2

VARIABLES
    \* ---- traversal ----
    occurrences,      \* assembly file -> its ordered occurrence list
    content_center,   \* the files whose document has is_content_center
    opts,             \* the keyword arguments of walk_assembly
    visited,          \* walk_assembly: visited (set of lower-cased paths)
    result,           \* walk_assembly: result (list of DiscoveredComponent)
    stack,            \* the active calls of _walk_recursive, innermost last
    wpc,              \* "idle" | "walking" | "done" | "error"
    baseline,         \* the result of the caller's previous walk, if any
    rerun,            \* what the caller changed before walking again
    \* ---- duplicate resolution ----
    items,            \* the list[ExportItem] given to resolve_duplicates
    original_names,   \* the output_filename values before the call
    rpc,              \* "idle" | "done"
    \* ---- batch execution ----
    tool,             \* "export" | "drawing" | "simplify" | "none"
    work,             \* the item list handed to the execute method
    creation,         \* drawing tool: "off" (auto_create_drawings false) |
                      \* "no_template" | "on"
    cancel,           \* cancel_event.is_set()
    epc,              \* "idle" | "loop" | "running" | "finish" | "done"
    idx,              \* the loop index i
    results,          \* the results list
    failed,           \* DrawingCreationOrchestrator.execute: failed
    logger,           \* "open" | "none" (None)
    log_calls,        \* the logger methods invoked so far, in order
    log_raised,       \* a per-item log write has raised
    invoked,          \* positions the per-item operation was invoked on
    op_raised,        \* for each invocation, whether the operation raised
    broke_at,         \* position at which the loop saw the cancel event
    set_during,       \* position whose operation ran when the event was set
    progress,         \* the (current, total) pairs given to _progress
    summary,          \* the returned summary
    \* ---- command-line entry points ----
    exit_status,      \* the status given to sys.exit, None while running
    \* ---- sanitize_filename ----
    raw_name,         \* the argument
    sanitized,        \* the returned string
    spc,              \* "idle" | "done"
    \* ---- NetworkTransport ----
    tqueue,           \* self._queue: files and None sentinels, oldest first
    thread,           \* the worker: "none" | "get" | "copy" | "dead"
    handed,           \* the files handed to shutil.copy2, in order
    copy_raised,      \* for each of them, whether the copy raised
    enqueue_calls,    \* calls of enqueue so far (the n-th call passes file n)
    stop_calls,       \* calls of stop so far
    put_before_stop,  \* the files enqueue had put when stop was first called
    \* ---- one ExportOrchestrator: scan() and the entry of export() ----
    app,              \* self._app: "None" | "connected"
    scan_calls,       \* how each scan() so far ended
    export_raised,    \* what the last rejected export() raised, or "none"
    \* ---- ExportToolGUI ----
    scan_btn,         \* state of the Scan button: "normal" | "disabled"
    export_btn,       \* state of the Run Export button
    cancel_btn,       \* state of the Cancel button
    scan_summary,     \* self._scan_summary: "None" | "set"
    output_var,       \* whether the output folder entry is non-empty
    cancel_event,     \* self._cancel_event
    gqueue,           \* self._queue: message types, oldest first
    workers           \* the threads started so far: kind and state

\* the components beside the traversal, the resolver and the batch
svars == <<raw_name, sanitized, spc>>
tvars == <<tqueue, thread, handed, copy_raised, enqueue_calls, stop_calls,
           put_before_stop>>
avars == <<app, scan_calls, export_raised>>
gvars == <<scan_btn, export_btn, cancel_btn, scan_summary, output_var,
           cancel_event, gqueue, workers>>
ovars == <<svars, tvars, avars, gvars>>

\* what the execute loops never touch
xvars == <<creation, exit_status, ovars>>

wvars == <<occurrences, content_center, opts, visited, result, stack, wpc,
           baseline, rerun>>
rvars == <<items, original_names, rpc>>
evars == <<tool, work, cancel, epc, idx, results, failed, logger, log_calls,
           log_raised, invoked, op_raised, broke_at, set_during, progress,
           summary, xvars>>
vars == <<wvars, rvars, evars>>

\* Python's None, a value no count or position takes
None == 0 - 1

(***************************************************************************)
(* Documents.  A file on disk is named by a string; a document wrapper     *)
(* reports the file's full path in some letter case, so a path is the file *)
(* plus the case it is reported in.                                        *)
(***************************************************************************)
RootFile == "Root.iam"
AssemblyFiles == {"Root.iam", "SubA.iam", "SubB.iam"}
Files == AssemblyFiles \cup {"Part.ipt"}
Unresolvable == "?"

Path(f, u) == [file |-> f, upper |-> u]

\* str.lower() on a full path, without the case folding
LowerNoFold(p) == p

\* str.lower() on a full path
Lower(p) == [p EXCEPT !.upper = FALSE]

\* assembly.full_path of the root
RootPath == Path(RootFile, TRUE)

\* The letter case in which the document referenced from assembly a reports
\* its path: occurrences of the root report it as stored, occurrences of a
\* sub-assembly report it lower-cased.
ReportedUpper(a) == a = RootFile

\* isinstance(ref_doc, AssemblyDocument)
IsAssembly(p) == p.file \in AssemblyFiles

\* ref_doc.is_content_center
IsContentCenter(p) == p.file \in content_center

Occurrence(f, s) == [ref |-> f, suppressed |-> s]

DiscoveredComponent(doc, top, sup, d) ==
    [document |-> doc, is_top_level |-> top, is_suppressed |-> sup, depth |-> d]

\* a call _walk_recursive(assembly a, current_depth d); i occurrences done
Frame(a, d) == [assembly |-> a, i |-> 0, depth |-> d]

(***************************************************************************)
(* Input graphs: every assignment of occurrence lists over the alphabet O  *)
(* to the assemblies with at most n occurrences in total.  Cycles, self    *)
(* references and shared documents are all among them.                     *)
(***************************************************************************)
PlainOccurrences == {Occurrence(f, FALSE) : f \in Files}

RichOccurrences ==
    {Occurrence(f, s) : f \in Files, s \in BOOLEAN}
        \cup {Occurrence(Unresolvable, FALSE)}

Lengths(n) ==
    {l \in [AssemblyFiles -> 0..n] :
        l["Root.iam"] + l["SubA.iam"] + l["SubB.iam"] <= n}

Graphs(O, n) ==
    UNION {
        {[a \in AssemblyFiles |->
            IF a = "Root.iam" THEN r ELSE IF a = "SubA.iam" THEN x ELSE y] :
          r \in [1..l["Root.iam"] -> O],
          x \in [1..l["SubA.iam"] -> O],
          y \in [1..l["SubB.iam"] -> O]} :
        l \in Lengths(n)}

\* max_depth: int | None, as the set of its integer values
DepthChoices == {{}} \cup {{k} : k \in 0..MaxDepthOpt}

Options(depths) ==
    [include_suppressed : BOOLEAN, include_content_center : BOOLEAN,
     max_depth : depths, include_parts : BOOLEAN,
     include_assemblies : BOOLEAN]

ContentCenterChoices == {{}, {"SubA.iam"}, {"Part.ipt"}}

(***************************************************************************)
(* The components that take no part in a specification stay idle.          *)
(***************************************************************************)
IdleWalk ==
    /\ occurrences = [a \in AssemblyFiles |-> <<>>]
    /\ content_center = {}
    /\ opts = [include_suppressed |-> FALSE, include_content_center |-> FALSE,
               max_depth |-> {}, include_parts |-> TRUE,
               include_assemblies |-> TRUE]
    /\ visited = {}
    /\ result = <<>>
    /\ stack = <<>>
    /\ wpc = "idle"
    /\ baseline = <<>>
    /\ rerun = "none"

IdleSanitize ==
    /\ raw_name = <<>>
    /\ sanitized = <<>>
    /\ spc = "idle"

IdleTransport ==
    /\ tqueue = <<>>
    /\ thread = "none"
    /\ handed = <<>>
    /\ copy_raised = <<>>
    /\ enqueue_calls = 0
    /\ stop_calls = 0
    /\ put_before_stop = <<>>

IdleGui ==
    /\ scan_btn = "none"
    /\ export_btn = "none"
    /\ cancel_btn = "none"
    /\ scan_summary = "None"
    /\ output_var = FALSE
    /\ cancel_event = FALSE
    /\ gqueue = <<>>
    /\ workers = <<>>

IdleOthers == IdleSanitize /\ IdleTransport /\ IdleGui

IdleResolve ==
    /\ items = <<>>
    /\ original_names = <<>>
    /\ rpc = "idle"

IdleExec ==
    /\ app = "None"
    /\ scan_calls = <<>>
    /\ export_raised = "none"
    /\ tool = "none"
    /\ work = <<>>
    /\ creation = "off"
    /\ cancel = FALSE
    /\ epc = "idle"
    /\ idx = 0
    /\ results = <<>>
    /\ failed = 0
    /\ logger = "none"
    /\ log_calls = <<>>
    /\ log_raised = FALSE
    /\ invoked = <<>>
    /\ op_raised = <<>>
    /\ broke_at = None
    /\ set_during = None
    /\ progress = <<>>
    /\ summary = [total |-> None, failed |-> None, results |-> <<>>]
    /\ exit_status = None

(***************************************************************************)
(* walk_assembly                                                           *)
(***************************************************************************)
InitWalkOver(graphs, ccs, options) ==
    /\ occurrences \in graphs
    /\ content_center \in ccs
    /\ opts \in options
    /\ visited = {}
    /\ result = <<>>
    /\ stack = <<>>
    /\ wpc = "idle"
    /\ baseline = <<>>
    /\ rerun = "none"
    /\ IdleResolve
    /\ IdleExec
    /\ IdleOthers

\* result.append(root) applying the include_assemblies filter to the root
RootComponentsFiltered ==
    IF opts.include_assemblies
    THEN <<DiscoveredComponent(RootPath, TRUE, FALSE, 0)>>
    ELSE <<>>

\* result after result.append(DiscoveredComponent(assembly, is_top_level=True))
RootComponents == <<DiscoveredComponent(RootPath, TRUE, FALSE, 0)>>

\* walk_assembly, up to its call of _walk_recursive(assembly, current_depth=1)
WalkStart ==
    /\ wpc = "idle"
    /\ visited' = {Lower(RootPath)}
    /\ result' = RootComponents
    /\ stack' = <<Frame(RootFile, 1)>>
    /\ wpc' = "walking"
    /\ UNCHANGED <<occurrences, content_center, opts, baseline, rerun,
                   rvars, evars>>

Top == stack[Len(stack)]

\* the early return left out
DepthExceededNever(d) == FALSE

\* max_depth is not None and current_depth > max_depth
DepthExceeded(d) == \E m \in opts.max_depth : d > m

\* the recursion guard with the recursion tied to include_assemblies
MayDescendIfEmitted(d) ==
    opts.include_assemblies /\ \A m \in opts.max_depth : d < m

\* the recursion guard never letting the walk descend
MayDescendNever(d) == FALSE

\* max_depth is None or current_depth < max_depth
MayDescend(d) == \A m \in opts.max_depth : d < m

\* the recursive call passing current_depth on unchanged
ChildDepthSame(d) == d

\* current_depth=current_depth + 1
ChildDepth(d) == d + 1

\* the type filter left out: every component is appended
TypeFilterOff(p) == TRUE

\* (is_part and include_parts) or (is_assembly and include_assemblies)
TypeFilter(p) ==
    \/ ~IsAssembly(p) /\ opts.include_parts
    \/ IsAssembly(p) /\ opts.include_assemblies

\* the suppression check left out
SkipSuppressedNever(occ) == FALSE

\* is_suppressed and not include_suppressed
SkipSuppressed(occ) == occ.suppressed /\ ~opts.include_suppressed

\* `break` in place of `continue`: the loop ends at the failed occurrence
AfterUnresolvableBreak(n) == Len(occurrences[stack[Len(stack)].assembly])

\* except Exception: continue -- the loop goes on after occurrence n
AfterUnresolvable(n) == n

\* the skip of a suppressed occurrence, were it placed after visited.add
VisitedAfterSkipMarked(k) == visited \cup {k}

\* visited after the skip of a suppressed occurrence: the `continue` comes
\* before referenced_document is read and before visited.add
VisitedAfterSkip(k) == visited

\* visited.add(path_key) left out
MarkVisitedNever(k) == visited

\* visited.add(path_key)
MarkVisited(k) == visited \cup {k}

\* _walk_recursive returns: its early return, or the end of its for loop.
\* The return of the outermost call is the return of walk_assembly.
WalkReturn ==
    /\ wpc = "walking"
    /\ \/ DepthExceeded(Top.depth)
       \/ Top.i = Len(occurrences[Top.assembly])
    /\ stack' = SubSeq(stack, 1, Len(stack) - 1)
    /\ wpc' = IF Len(stack) = 1 THEN "done" ELSE "walking"
    /\ UNCHANGED <<occurrences, content_center, opts, visited, result,
                   baseline, rerun, rvars, evars>>

\* One iteration of the for loop of the innermost call: the loop body on the
\* next occurrence, up to and including the recursive call it may make.
WalkOccurrence ==
    /\ wpc = "walking"
    /\ ~DepthExceeded(Top.depth)
    /\ Top.i < Len(occurrences[Top.assembly])
    /\ LET n == Top.i + 1
           occ == occurrences[Top.assembly][n]
           advanced == [stack EXCEPT ![Len(stack)].i = n]
           ref_doc == Path(occ.ref, ReportedUpper(Top.assembly))
           path_key == Lower(ref_doc)
           skip == /\ stack' = advanced
                   /\ UNCHANGED <<visited, result, wpc>>
       IN  IF SkipSuppressed(occ)
           THEN /\ stack' = advanced
                /\ visited' = VisitedAfterSkip(path_key)
                /\ UNCHANGED <<result, wpc>>
           ELSE IF occ.ref = Unresolvable
           THEN /\ stack' = [stack EXCEPT ![Len(stack)].i = AfterUnresolvable(n)]
                /\ UNCHANGED <<visited, result, wpc>>
           ELSE IF path_key \in visited
           THEN skip
           ELSE /\ visited' = MarkVisited(path_key)
                /\ IF IsContentCenter(ref_doc) /\ ~opts.include_content_center
                   THEN /\ stack' = advanced
                        /\ UNCHANGED <<result, wpc>>
                   ELSE /\ result' =
                             IF TypeFilter(ref_doc)
                             THEN Append(result,
                                    DiscoveredComponent(ref_doc, FALSE,
                                        occ.suppressed, Top.depth))
                             ELSE result
                        /\ IF IsAssembly(ref_doc) /\ MayDescend(Top.depth)
                           THEN IF Len(stack) < RecursionLimit
                                THEN /\ stack' = Append(advanced,
                                           Frame(occ.ref,
                                                 ChildDepth(Top.depth)))
                                     /\ UNCHANGED wpc
                                ELSE \* RecursionError leaves walk_assembly
                                     /\ stack' = <<>>
                                     /\ wpc' = "error"
                           ELSE /\ stack' = advanced
                                /\ UNCHANGED wpc
    /\ UNCHANGED <<occurrences, content_center, opts, baseline, rerun,
                   rvars, evars>>

NextWalk == WalkStart \/ WalkOccurrence \/ WalkReturn

\* plain graphs, every combination of the options
InitWalk ==
    InitWalkOver(Graphs(PlainOccurrences, MaxOccTotal), {{}},
                 Options(DepthChoices))

SpecWalk == InitWalk /\ [][NextWalk]_vars

\* a started call runs on: the interpreter never stops in mid-call
FairSpecWalk == SpecWalk /\ WF_vars(NextWalk)

\* graphs with suppressed, unresolvable and content-center references,
\* max_depth=1, every combination of the other options
InitWalkDepth1 ==
    InitWalkOver(Graphs(RichOccurrences, MaxOccRich), ContentCenterChoices,
                 Options({{1}}))

SpecWalkDepth1 == InitWalkDepth1 /\ [][NextWalk]_vars

\* the occurrence list of assembly a with its occurrence n taken out
WithoutOccurrence(a, n) ==
    [occurrences EXCEPT
        ![a] = SubSeq(@, 1, n - 1) \o SubSeq(@, n + 1, Len(@))]

\* The caller scans the same assembly again (a scan is one call of
\* walk_assembly with the options of the current configuration): the result
\* of the finished walk is kept aside and a new call begins.
ScanAgain(label) ==
    /\ wpc = "done"
    /\ rerun = "none"
    /\ baseline' = result
    /\ rerun' = label
    /\ visited' = {}
    /\ result' = <<>>
    /\ stack' = <<>>
    /\ wpc' = "idle"
    /\ UNCHANGED <<content_center, rvars, evars>>

\* the second scan runs with include_subassemblies switched off
ScanAgainWithoutAssemblies ==
    /\ opts.include_assemblies
    /\ ScanAgain("include_assemblies=False")
    /\ opts' = [opts EXCEPT !.include_assemblies = FALSE]
    /\ UNCHANGED occurrences

\* the second scan runs after one broken reference was deleted from the model
ScanAgainOccurrenceRemoved ==
    /\ \E a \in AssemblyFiles :
         \E n \in 1..Len(occurrences[a]) :
            /\ occurrences[a][n].ref = Unresolvable
            /\ occurrences' = WithoutOccurrence(a, n)
    /\ ScanAgain("occurrence removed")
    /\ UNCHANGED opts

NextWalkRich ==
    NextWalk \/ ScanAgainWithoutAssemblies \/ ScanAgainOccurrenceRemoved

\* graphs with suppressed, unresolvable and content-center references,
\* walked without a depth limit and with max_depth=1
InitWalkRich ==
    InitWalkOver(Graphs(RichOccurrences, MaxOccRich), ContentCenterChoices,
                 Options({{}, {1}}))

SpecWalkRich == InitWalkRich /\ [][NextWalkRich]_vars

\* plain graphs of up to MaxOccDeep occurrences walked with max_depth=2,
\* every combination of the type filters
InitWalkDepth2 ==
    InitWalkOver(Graphs(PlainOccurrences, MaxOccDeep), {{}},
                 {o \in Options({{2}}) :
                     ~o.include_suppressed /\ o.include_content_center})

SpecWalkDepth2 == InitWalkDepth2 /\ [][NextWalk]_vars

(***************************************************************************)
(* Properties of walk_assembly                                             *)
(***************************************************************************)
ResultFiles == {result[k].document.file : k \in 1..Len(result)}

\* the occurrences (container, position) that reference file f
References(f) ==
    {<<a, n>> \in AssemblyFiles \X (1..MaxOccTotal + 1) :
        n <= Len(occurrences[a]) /\ occurrences[a][n].ref = f}

\* C1: no two entries of the result of walk_assembly have the same lower-cased
\* full path (two paths are equal ignoring case exactly when they name the
\* same file); in particular the root is never emitted a second time.
C1_NoDuplicatePaths ==
    \A i, j \in 1..Len(result) :
        i # j => result[i].document.file # result[j].document.file

\* a finished unbounded walk that emitted a document referenced from two
\* different emitted containers
C1_Witness ==
    /\ wpc = "done"
    /\ opts.max_depth = {}
    /\ \E f \in ResultFiles \ {RootFile} :
         \E r1, r2 \in References(f) :
            /\ r1[1] # r2[1]
            /\ {r1[1], r2[1]} \subseteq ResultFiles

\* C2: walk_assembly terminates (returns its result) on every graph, cyclic
\* ones included, for every combination of its options.
C2_Terminates == <>(wpc = "done")

\* a finished unbounded walk of a graph in which an emitted sub-assembly
\* refers back to the root (the cycle A -> B -> A)
C2_Witness ==
    /\ wpc = "done"
    /\ opts.max_depth = {}
    /\ \E a \in (AssemblyFiles \ {RootFile}) \cap ResultFiles :
         /\ References(a) # {}
         /\ \E r \in References(RootFile) : r[1] = a

\* C9: the first entry of the result is the root assembly with
\* is_top_level=true and depth 0, and no other entry has is_top_level=true,
\* whatever the options.
C9_RootFirst ==
    wpc \in {"walking", "done"} =>
        /\ Len(result) >= 1
        /\ result[1].document = RootPath
        /\ result[1].is_top_level
        /\ result[1].depth = 0
        /\ \A k \in 2..Len(result) : ~result[k].is_top_level

\* a finished walk with include_assemblies=false that emitted something
\* besides the root
C9_Witness ==
    /\ wpc = "done"
    /\ ~opts.include_assemblies
    /\ Len(result) >= 2

RootOccurrences == occurrences[RootFile]

\* occurrence n of the root passes the suppression, content-center and type
\* filters and resolves to a document other than the root itself
PassesFilters(n) ==
    LET o == RootOccurrences[n]
    IN  /\ o.suppressed => opts.include_suppressed
        /\ o.ref \notin {Unresolvable, RootFile}
        /\ o.ref \in content_center => opts.include_content_center
        /\ o.ref \in AssemblyFiles => opts.include_assemblies
        /\ o.ref \notin AssemblyFiles => opts.include_parts

\* occurrence n is the first one of the root that passes for its document
FirstPassing(n) ==
    /\ PassesFilters(n)
    /\ \A m \in 1..(n - 1) :
         ~(PassesFilters(m) /\ RootOccurrences[m].ref = RootOccurrences[n].ref)

DirectChildren ==
    LET positions == SelectSeq([n \in 1..Len(RootOccurrences) |-> n],
                               LAMBDA n : FirstPassing(n))
    IN  [k \in 1..Len(positions) |-> RootOccurrences[positions[k]].ref]

\* C10: with max_depth=1 the result is the root followed by exactly the
\* distinct documents (the root itself, already listed, aside) that the
\* root's own occurrences reference and that pass the suppression,
\* content-center and type filters, each with depth 1, in occurrence order.
C10_Depth1DirectChildren ==
    (wpc = "done" /\ opts.max_depth = {1}) =>
        /\ Len(result) = 1 + Len(DirectChildren)
        /\ result[1].document = RootPath
        /\ \A k \in 1..Len(DirectChildren) :
             /\ result[k + 1].document.file = DirectChildren[k]
             /\ result[k + 1].depth = 1

\* a finished max_depth=1 walk that emitted a sub-assembly whose own
\* occurrence references a document that is not in the result
C10_Witness ==
    /\ wpc = "done"
    /\ opts.max_depth = {1}
    /\ \E a \in (AssemblyFiles \ {RootFile}) \cap ResultFiles :
         \E n \in 1..Len(occurrences[a]) :
            /\ occurrences[a][n].ref \in Files \ ResultFiles
            /\ ~occurrences[a][n].suppressed

\* an occurrence that resolves and that the suppression setting allows
Allowed(o) ==
    /\ o.ref # Unresolvable
    /\ o.suppressed => opts.include_suppressed

\* an occurrence that resolves and is not suppressed
Unsuppressed(o) == o.ref # Unresolvable /\ ~o.suppressed

\* the files referenced from the assemblies of S by allowed occurrences, or
\* (strict) by unsuppressed occurrences only
Referenced(S, strict) ==
    {occurrences[r[1]][r[2]].ref :
        r \in {q \in (S \cap AssemblyFiles) \X (1..MaxOccRich + 1) :
                 /\ q[2] <= Len(occurrences[q[1]])
                 /\ IF strict THEN Unsuppressed(occurrences[q[1]][q[2]])
                              ELSE Allowed(occurrences[q[1]][q[2]])}}

RECURSIVE Closure(_, _)
Closure(S, strict) ==
    LET T == S \cup Referenced(S, strict)
    IN  IF T = S THEN S ELSE Closure(T, strict)

\* the documents reachable from the root through allowed occurrences
Reachable == Closure({RootFile}, FALSE)

\* C11: with max_depth=None, include_content_center=true and both type
\* filters true, the set of documents in the result of walk_assembly is the
\* set of documents reachable from the root through resolvable occurrences
\* that the suppression setting allows.
C11_AllReachableReturned ==
    ( /\ wpc = "done"
      /\ opts.max_depth = {}
      /\ opts.include_content_center
      /\ opts.include_parts
      /\ opts.include_assemblies ) => ResultFiles = Reachable

\* a finished unfiltered walk without a depth limit that emitted a document
\* two levels below the root
C11_Witness ==
    /\ wpc = "done"
    /\ opts.max_depth = {}
    /\ opts.include_content_center
    /\ opts.include_parts
    /\ opts.include_assemblies
    /\ \E k \in 1..Len(result) : result[k].depth = 2

\* the documents that the type filters let through
TypeAllowed(f) ==
    IF f \in AssemblyFiles THEN opts.include_assemblies ELSE opts.include_parts

\* C12: with include_content_center=false a content-center sub-assembly is
\* not emitted but is descended into: every document reachable from the root
\* that is not content-center and passes the type filters is in the result
\* of an unbounded walk.
C12_ContentCenterDescended ==
    ( /\ wpc = "done"
      /\ opts.max_depth = {}
      /\ ~opts.include_content_center ) =>
        /\ ResultFiles \cap content_center = {}
        /\ \A f \in Reachable \ content_center :
             TypeAllowed(f) => f \in ResultFiles

\* the entries of a result that are parts
PartsOf(list) == SelectSeq(list, LAMBDA c : ~IsAssembly(c.document))

C14_SuppressedNotDescended ==
    ~opts.include_suppressed =>
        /\ \A k \in 1..Len(result) : ~result[k].is_suppressed
        /\ ResultFiles \subseteq Closure({RootFile}, TRUE)

\* a finished walk with include_suppressed=false of a graph in which a
\* suppressed occurrence references a sub-assembly that has an unsuppressed
\* occurrence of a document absent from the result
C14_Witness ==
    /\ wpc = "done"
    /\ ~opts.include_suppressed
    /\ opts.max_depth = {}
    /\ opts.include_parts
    /\ \E n \in 1..Len(RootOccurrences) :
         LET o == RootOccurrences[n]
         IN  /\ o.suppressed
             /\ o.ref \in AssemblyFiles \ ResultFiles
             /\ \E m \in 1..Len(occurrences[o.ref]) :
                  /\ Unsuppressed(occurrences[o.ref][m])
                  /\ occurrences[o.ref][m].ref \notin ResultFiles

\* C15: an occurrence whose referenced document cannot be resolved does not
\* make walk_assembly raise, and the result equals the result of walking
\* the graph with that occurrence removed.
C15_UnresolvableSkipped ==
    /\ wpc # "error"
    /\ (wpc = "done" /\ rerun = "occurrence removed") => result = baseline

\* a finished second walk, after the removal of an unresolvable occurrence
\* that was the first occurrence of the root and had a sibling after it
C15_Witness ==
    /\ wpc = "done"
    /\ rerun = "occurrence removed"
    /\ Len(result) >= 2
    /\ Len(RootOccurrences) = 1

\* the documents that the occurrences of the assemblies of S resolve to
EdgeTargets(S) ==
    UNION {{occurrences[a][n].ref : n \in 1..Len(occurrences[a])} :
              a \in S \cap AssemblyFiles} \ {Unresolvable}

\* the documents at the end of a chain of exactly d reference edges from
\* the root
RECURSIVE Level(_)
Level(d) == IF d = 0 THEN {RootFile} ELSE EdgeTargets(Level(d - 1))

\* C23: every emitted component carries as depth the number of reference
\* edges on the path along which the walk reached it: the root has depth
\* 0, a component is emitted with the number of calls active at that moment
\* (the containers on the path from the root), and a chain of exactly that
\* many reference edges leads from the root to it.
C23_DepthCountsEdges ==
    /\ [](/\ \A k \in 1..Len(stack) : stack[k].depth = k
          /\ \A k \in 1..Len(result) :
               /\ (k = 1) <=> (result[k].depth = 0)
               /\ result[k].document.file \in Level(result[k].depth))
    /\ [][Len(result') > Len(result) /\ Len(result) >= 1 =>
            /\ Len(result') = Len(result) + 1
            /\ result'[Len(result')].depth = Len(stack)
            /\ result'[Len(result')].document.file
                   \in EdgeTargets({stack[Len(stack)].assembly})]_vars

\* a finished walk that emitted a component three levels below the root
C23_Witness ==
    /\ wpc = "done"
    /\ \E k \in 1..Len(result) : result[k].depth = 3

\* the occurrence the innermost call examines next
NextOccurrence == occurrences[Top.assembly][Top.i + 1]

\* C24: with max_depth=k no emitted component has a depth greater than k,
\* a component reached at depth k (or less) that is new and passes the type
\* filters is emitted with that depth, no occurrence of an assembly reached
\* at depth k is examined, and with max_depth=0 the result is the root alone.
C24_DepthLimit ==
    /\ [](\A m \in opts.max_depth :
            /\ \A k \in 1..Len(result) : result[k].depth <= m
            /\ \A j \in 1..Len(stack) : stack[j].depth > m => stack[j].i = 0
            /\ (wpc = "done" /\ m = 0) => Len(result) = 1)
    /\ [][\A m \in opts.max_depth :
            ( /\ wpc = "walking"
              /\ Top.depth <= m
              /\ Top.i < Len(occurrences[Top.assembly])
              /\ Path(NextOccurrence.ref, FALSE) \notin visited
              /\ TypeAllowed(NextOccurrence.ref) ) =>
                /\ Len(result') = Len(result) + 1
                /\ result'[Len(result')].document.file = NextOccurrence.ref
                /\ result'[Len(result')].depth = Top.depth]_vars

\* a finished walk with max_depth=2 that emitted at depth 2 an assembly
\* whose own occurrence references a document absent from the result
C24_Witness ==
    /\ wpc = "done"
    /\ opts.max_depth = {2}
    /\ \E k \in 1..Len(result) :
         /\ result[k].depth = 2
         /\ result[k].document.file \in AssemblyFiles
         /\ \E n \in 1..Len(occurrences[result[k].document.file]) :
              occurrences[result[k].document.file][n].ref \notin ResultFiles

\* some occurrence in the graph that references f is suppressed
HasSuppressedOccurrence(f) ==
    \E a \in AssemblyFiles : \E n \in 1..Len(occurrences[a]) :
        /\ occurrences[a][n].ref = f
        /\ occurrences[a][n].suppressed

\* the content-center filter and the type filters let f into the result
Emittable(f) ==
    /\ f \in content_center => opts.include_content_center
    /\ TypeAllowed(f)

\* the entries of res for the document f
EntriesFor(res, f) == {k \in 1..Len(res) : res[k].document.file = f}

DirectSubAssemblies ==
    {RootOccurrences[n].ref : n \in 1..Len(RootOccurrences)}
        \cap (AssemblyFiles \ {RootFile})

\* C25: with max_depth=2 every document that passes the type filters and is
\* referenced by an occurrence of a sub-assembly the root references
\* directly is in the result, whatever the order of the occurrences and
\* however else that sub-assembly is referenced.
C25_Depth2ReturnsGrandchildren ==
    (wpc = "done" /\ opts.max_depth = {2}) =>
        \A f \in EdgeTargets(DirectSubAssemblies) :
            TypeAllowed(f) => f \in ResultFiles

(***************************************************************************)
(* resolve_duplicates.  A string is the sequence of its characters.        *)
(***************************************************************************)
\* str.lower() on one character
LowerChar(c) ==
    CASE c = "P" -> "p"
      [] c = "B" -> "b"
      [] c = "S" -> "s"
      [] OTHER -> c

\* a key made of the first character only
StrLowerFirstOnly(s) == <<LowerChar(s[1])>>

\* str.lower()
StrLower(s) == [k \in 1..Len(s) |-> LowerChar(s[k])]

Digit(d) ==
    CASE d = 0 -> "0" [] d = 1 -> "1" [] d = 2 -> "2" [] d = 3 -> "3"
      [] d = 4 -> "4" [] d = 5 -> "5" [] d = 6 -> "6" [] d = 7 -> "7"
      [] d = 8 -> "8" [] d = 9 -> "9"

\* str(count), as the f-string formats it
RECURSIVE Decimal(_)
Decimal(n) ==
    IF n < 10 THEN <<Digit(n)>>
    ELSE Decimal(n \div 10) \o <<Digit(n % 10)>>

\* position of the last character c in s, 0 if there is none
LastIndex(s, c) ==
    LET at == {k \in 1..Len(s) : s[k] = c}
    IN  IF at = {} THEN 0 ELSE CHOOSE k \in at : \A j \in at : j <= k

\* os.path.splitext finding no extension
SplitExtNone(s) == <<s, <<>>>>

\* os.path.splitext on a bare file name: the extension starts at the last
\* dot, unless only dots precede it
SplitExt(s) ==
    LET d == LastIndex(s, ".")
    IN  IF d > 0 /\ \E j \in 1..(d - 1) : s[j] # "."
        THEN <<SubSeq(s, 1, d - 1), SubSeq(s, d, Len(s))>>
        ELSE <<s, <<>>>>

\* os.path.dirname
Dirname(p) == SubSeq(p, 1, LastIndex(p, "/") - 1)

\* os.path.join(folder, name)
Join(folder, name) ==
    IF folder = <<>> THEN name ELSE folder \o <<"/">> \o name

ExportItem(folder, name) ==
    [output_filename |-> name, output_path |-> Join(folder, name)]

\* The for loop of resolve_duplicates from position k on, given the seen
\* dictionary built by the positions before k.
RECURSIVE ResolveFrom(_, _, _)
ResolveFrom(its, k, seen) ==
    IF k > Len(its) THEN its
    ELSE LET item == its[k]
             key == StrLower(item.output_filename)
         IN  IF key \in DOMAIN seen
             THEN LET count == seen[key] + 1
                      parts == SplitExt(item.output_filename)
                      renamed == parts[1] \o <<"_">> \o Decimal(count)
                                     \o parts[2]
                      folder == Dirname(item.output_path)
                      changed == [output_filename |-> renamed,
                                  output_path |-> Join(folder, renamed)]
                  IN  ResolveFrom([its EXCEPT ![k] = changed], k + 1,
                                  [seen EXCEPT ![key] = count])
             ELSE ResolveFrom(its, k + 1,
                      [x \in DOMAIN seen \cup {key} |->
                          IF x = key THEN 1 ELSE seen[x]])

\* an empty dict
EmptyDict == [x \in {} |-> 0]

\* the file names compose_filename gives two display names that differ in
\* case only and three revisions: "P-B.stp", "p-B_2.stp", ...
DisplayNames == {<<"P">>, <<"p">>}
Revisions == {<<"B">>, <<"B", "_", "2">>, <<"B", "_", "3">>}
NamePool ==
    {n \o <<"-">> \o r \o <<".", "s", "t", "p">> :
        n \in DisplayNames, r \in Revisions}

\* config.output_folder, shared by all items of a scan
OutputFolder == <<"o", "u", "t">>

ItemLists ==
    UNION {[1..k -> {ExportItem(OutputFolder, n) : n \in NamePool}] :
              k \in 1..MaxItems}

InitResolve ==
    /\ items \in ItemLists
    /\ original_names = [k \in 1..Len(items) |-> items[k].output_filename]
    /\ rpc = "idle"
    /\ IdleWalk
    /\ IdleExec
    /\ IdleOthers

\* resolve_duplicates(items), as ExportOrchestrator.scan calls it
ResolveDuplicates ==
    /\ rpc = "idle"
    /\ items' = ResolveFrom(items, 1, EmptyDict)
    /\ rpc' = "done"
    /\ UNCHANGED <<original_names, wvars, evars>>

NextResolve == ResolveDuplicates

SpecResolve == InitResolve /\ [][NextResolve]_vars

\* C3: after resolve_duplicates has run on items that share one output
\* directory, no two items have output_filename values equal ignoring case
\* (so no two items have the same output_path).
C3_NoCollisionAfterResolve ==
    rpc = "done" =>
        \A i, j \in 1..Len(items) :
            i # j => /\ StrLower(items[i].output_filename)
                          # StrLower(items[j].output_filename)
                     /\ items[i].output_path # items[j].output_path

\* two file names are equal ignoring case
SameIgnoringCase(a, b) ==
    /\ Len(a) = Len(b)
    /\ \A k \in 1..Len(a) : LowerChar(a[k]) = LowerChar(b[k])

\* the rank of position i in its case-insensitive group of original names
GroupRank(i) ==
    Cardinality({j \in 1..i :
                    SameIgnoringCase(original_names[j], original_names[i])})

\* name with its four-character extension (.stp) preceded by _k
WithSuffix(name, k) ==
    SubSeq(name, 1, Len(name) - 4) \o <<"_", Digit(k)>>
        \o SubSeq(name, Len(name) - 3, Len(name))

\* C16: resolve_duplicates leaves the first item of each case-insensitive
\* group of file names untouched and renames the k-th item of the group
\* (k >= 2, in list order) by inserting _k before the extension of the item's
\* own name, with output_path rebuilt from the unchanged directory.
C16_KthItemGetsSuffixK ==
    rpc = "done" =>
        /\ Len(items) = Len(original_names)
        /\ \A i \in 1..Len(items) :
             LET expected == IF GroupRank(i) = 1
                             THEN original_names[i]
                             ELSE WithSuffix(original_names[i], GroupRank(i))
             IN  /\ items[i].output_filename = expected
                 /\ items[i].output_path = Join(OutputFolder, expected)

\* a resolved list of three names of one group, the second differing from
\* the first in letter case
C16_Witness ==
    /\ rpc = "done"
    /\ Len(items) = 3
    /\ GroupRank(3) = 3
    /\ original_names[1] # original_names[2]
    /\ items[3].output_filename # original_names[3]

\* the original file names are pairwise distinct ignoring case
NamesDistinct ==
    \A i, j \in 1..Len(original_names) :
        i # j => ~SameIgnoringCase(original_names[i], original_names[j])

\* C17: when the file names of the input are pairwise distinct ignoring
\* case, resolve_duplicates changes no output_filename and no output_path,
\* and a second run on its output changes nothing either.
C17_DistinctNamesUnchanged ==
    (rpc = "done" /\ NamesDistinct) =>
        /\ items = [k \in 1..Len(original_names) |->
                       ExportItem(OutputFolder, original_names[k])]
        /\ ResolveFrom(items, 1, EmptyDict) = items

\* a resolved list of three names that are pairwise distinct ignoring case
C17_Witness ==
    /\ rpc = "done"
    /\ Len(items) = 3
    /\ NamesDistinct

(***************************************************************************)
(* The execute loops: ExportOrchestrator.export,                           *)
(* DrawingCreationOrchestrator.execute and SimplifyOrchestrator.run.       *)
(* The per-item operation and the logger are external: whether a call of   *)
(* either raises is chosen freely at the call.  The cancel event is set by *)
(* another thread at any moment.                                           *)
(***************************************************************************)
Tools == {"export", "drawing", "simplify"}

\* An item of the list handed in: its position there, its include flag and
\* what the scan found of its drawing.  The scanner sets drawing_path and
\* drawing_status together: a found .idw and EXISTING, or None and
\* NEEDS_CREATION.
WorkItem(k, inc, idw) ==
    [id |-> k, include |-> inc,
     drawing_path |-> IF idw THEN "idw" ELSE "None",
     drawing_status |-> IF idw THEN "EXISTING" ELSE "NEEDS_CREATION"]

\* DrawingItem carries an include flag and the drawing fields; ExportItem
\* and SimplifyRow do not
WorkLists(t) ==
    UNION {
        {[k \in 1..n |-> WorkItem(k, inc[k], idw[k])] :
            inc \in [1..n -> IF t = "drawing" THEN BOOLEAN ELSE {TRUE}],
            idw \in [1..n -> IF t = "drawing" THEN BOOLEAN ELSE {TRUE}]} :
        n \in 0..MaxItems}

\* the list the loop iterates: summary.export_items, selected, self._rows
Selected(t, w) ==
    IF t = "drawing" THEN SelectSeq(w, LAMBDA it : it.include) ELSE w

\* total
Total == Len(Selected(tool, work))

InitExecAfter(scans) ==
    /\ tool \in Tools
    /\ scan_calls = scans
    /\ app = (IF \E k \in 1..Len(scans) : scans[k] # "connect_raised"
              THEN "connected" ELSE "None")
    /\ export_raised = "none"
    /\ work \in WorkLists(tool)
    /\ creation \in IF tool = "drawing" THEN {"off", "no_template", "on"}
                                        ELSE {"off"}
    /\ cancel = FALSE
    /\ epc = "idle"
    /\ idx = 0
    /\ results = <<>>
    /\ failed = 0
    /\ logger = "none"
    /\ log_calls = <<>>
    /\ log_raised = FALSE
    /\ invoked = <<>>
    /\ op_raised = <<>>
    /\ broke_at = None
    /\ set_during = None
    /\ progress = <<>>
    /\ summary = [total |-> None, failed |-> None, results |-> <<>>]
    /\ exit_status = None
    /\ IdleWalk
    /\ IdleResolve
    /\ IdleOthers

\* the batch tools with their scan behind them: the export tool's scan has
\* connected and returned the summary, the other two keep no connection
InitExec == InitExecAfter(IF tool = "export" THEN <<"returned">> ELSE <<>>)

\* The set-up of a logger whose calls are made inside one try block: any
\* call may raise, which leaves the logger None; n = 0 is a failure before
\* the first call (no output folder, makedirs, the constructor).
GuardedSetup(calls) ==
    {[calls |-> SubSeq(calls, 1, n), logger |-> "none"] :
        n \in 0..Len(calls)}
        \cup {[calls |-> calls, logger |-> "open"]}

\* the part of an execute method before its for loop
StartWith(setups) ==
    /\ epc = "idle"
    /\ \E s \in setups :
         /\ log_calls' = s.calls
         /\ logger' = s.logger
    /\ idx' = 0
    /\ results' = <<>>
    /\ failed' = 0
    /\ epc' = IF Total = 0 THEN "finish" ELSE "loop"
    /\ UNCHANGED <<tool, work, cancel, log_raised, invoked, op_raised,
                   broke_at, set_during, progress, summary, xvars,
                   wvars, rvars>>

\* the guard of export(), never taken
AppMissingNever == FALSE

\* if self._app is None
AppMissing == app = "None"

\* ExportOrchestrator.export up to its for loop
ExportStart ==
    /\ tool = "export"
    /\ ~AppMissing
    /\ StartWith(GuardedSetup(<<"open", "log_config", "log_start">>))

\* DrawingCreationOrchestrator.execute up to its for loop: open() failing
\* leaves the logger None, log_start failing only emits a warning
DrawingExecuteStart ==
    /\ tool = "drawing"
    /\ StartWith({[calls |-> <<"open">>, logger |-> "none"],
                  [calls |-> <<"open", "log_start">>, logger |-> "open"]})

\* SimplifyOrchestrator.run up to its for loop (_open_logger)
SimplifyRunStart ==
    /\ tool = "simplify"
    /\ StartWith(GuardedSetup(<<"open", "log_start">>))

\* the cancel check, never seeing the event
CancelIgnored == FALSE

\* cancel_event and cancel_event.is_set()
CancelRequested == cancel

\* the loop's check of the cancel event finds it set: break
CancelBreak ==
    /\ epc = "loop"
    /\ CancelRequested
    /\ broke_at' = idx
    /\ epc' = "finish"
    /\ UNCHANGED <<tool, work, cancel, idx, results, failed, logger,
                   log_calls, log_raised, invoked, op_raised, set_during,
                   progress, summary, xvars,
                   wvars, rvars>>

\* the loop's check finds the event clear: _progress(i, total) and the call
\* of the per-item operation on item i
ItemBegin ==
    /\ epc = "loop"
    /\ ~CancelRequested
    /\ progress' = Append(progress, <<idx, Total>>)
    /\ invoked' = Append(invoked, idx)
    /\ epc' = "running"
    /\ UNCHANGED <<tool, work, cancel, idx, results, failed, logger,
                   log_calls, log_raised, op_raised, broke_at, set_during,
                   summary, xvars,
                   wvars, rvars>>

\* log_export, log_item, log_result
PerItemWrite(t) ==
    CASE t = "export" -> "log_export"
      [] t = "drawing" -> "log_item"
      [] t = "simplify" -> "log_result"

\* the logger after a per-item write raised, kept by every tool
LoggerKeptAfterWriteFailure(t) == "open"

\* the logger after a per-item write raised: export and execute set it to
\* None, run passes
LoggerAfterWriteFailure(t) == IF t = "simplify" THEN "open" ELSE "none"

\* where the loop goes after an item, were a raising operation to leave it
AfterItemAbortOnRaise(raised) ==
    IF raised \/ idx + 1 = Total THEN "finish" ELSE "loop"

\* where the loop goes after an item: the raise is caught, the loop goes on
AfterItem(raised) == IF idx + 1 = Total THEN "finish" ELSE "loop"

\* success=False for an operation that ran while the event was set
SuccessUnlessCancelled(raised) == ~raised /\ ~cancel

\* success=True after the operation returned, success=False in the except
\* clause
Success(raised) == ~raised

\* results holding the latest result only
RecordLatestOnly(rs, r) == <<r>>

\* results.append(result)
Record(rs, r) == Append(rs, r)

\* the item with its new drawing recorded and its include flag cleared
CreatedAndDeselected(item) ==
    [item EXCEPT !.drawing_path = "idw", !.drawing_status = "EXISTING",
                 !.include = FALSE]

\* item.drawing_path = drawing_path; item.drawing_status = EXISTING
Created(item) ==
    [item EXCEPT !.drawing_path = "idw", !.drawing_status = "EXISTING"]

\* What the per-item operation can do on an item: raise or return, and
\* (_process_item only) record a drawing it created on the item.  An item
\* that needs its drawing created is skipped when auto_create_drawings is
\* off, raises when no template is configured, and otherwise either fails
\* in _create_drawing, or is created and then succeeds or fails in
\* _write_revision.
Outcomes(item) ==
    IF tool = "drawing" /\ item.drawing_status = "NEEDS_CREATION"
    THEN CASE creation = "off" ->
                {[raised |-> FALSE, created |-> FALSE, action |-> "skipped"]}
           [] creation = "no_template" ->
                {[raised |-> TRUE, created |-> FALSE, action |-> "failed"]}
           [] creation = "on" ->
                {[raised |-> TRUE, created |-> FALSE, action |-> "failed"],
                 [raised |-> TRUE, created |-> TRUE, action |-> "failed"],
                 [raised |-> FALSE, created |-> TRUE,
                  action |-> "created+revision"]}
    ELSE {[raised |-> r, created |-> FALSE,
           action |-> IF r THEN "failed" ELSE "done"] : r \in BOOLEAN}

\* The per-item operation returns or raises; the result is recorded and
\* handed to the logger.
ItemEnd ==
    /\ epc = "running"
    /\ \E o \in Outcomes(Selected(tool, work)[idx + 1]) :
        LET raised == o.raised
            pos == Selected(tool, work)[idx + 1].id
        IN
         /\ work' = IF o.created
                     THEN [work EXCEPT ![pos] = Created(@)]
                     ELSE work
         /\ results' = Record(results,
                [item |-> pos,
                 success |-> Success(raised),
                 action |-> o.action])
         /\ op_raised' = Append(op_raised, raised)
         /\ failed' = IF tool = "drawing" /\ raised THEN failed + 1 ELSE failed
         /\ epc' = AfterItem(raised)
    /\ IF logger = "open"
       THEN /\ log_calls' = Append(log_calls, PerItemWrite(tool))
            /\ \E write_raises \in BOOLEAN :
                 IF write_raises
                 THEN /\ logger' = LoggerAfterWriteFailure(tool)
                      /\ log_raised' = TRUE
                 ELSE UNCHANGED <<logger, log_raised>>
       ELSE UNCHANGED <<logger, log_calls, log_raised>>
    /\ idx' = idx + 1
    /\ UNCHANGED <<tool, cancel, invoked, broke_at, set_during,
                   progress, summary, xvars,
                   wvars, rvars>>

\* the last notification giving the number of items done
FinalProgressDone == <<Len(results), Total>>

\* self._progress(total, total)
FinalProgress == <<Total, Total>>

\* the part of an execute method after its for loop: the last progress
\* notification, the summary s, and log_finish and close in one try block
FinishWith(s) ==
    /\ epc = "finish"
    /\ progress' = Append(progress, FinalProgress)
    /\ summary' = s
    /\ IF logger = "open"
       THEN \E calls \in {<<"log_finish">>, <<"log_finish", "close">>} :
                log_calls' = log_calls \o calls
       ELSE UNCHANGED log_calls
    /\ epc' = "done"
    /\ UNCHANGED <<tool, work, cancel, idx, results, failed, logger,
                   log_raised, invoked, op_raised, broke_at, set_during,
                   xvars,
                   wvars, rvars>>

\* sum(1 for r in results if r.success)
Successes(rs) == Cardinality({k \in 1..Len(rs) : rs[k].success})

\* ExportOrchestrator.export after its loop: returns the results list
ExportFinish ==
    /\ tool = "export"
    /\ FinishWith([total |-> None, failed |-> None, results |-> results])

\* DrawingCreationOrchestrator.execute after its loop: CreationSummary
DrawingExecuteFinish ==
    /\ tool = "drawing"
    /\ FinishWith([total |-> Total, failed |-> failed, results |-> results])

\* SimplifyOrchestrator.run after its loop: SimplifySummary, where
\* failed = len(results) - succeeded
SimplifyRunFinish ==
    /\ tool = "simplify"
    /\ FinishWith([total |-> Total,
                   failed |-> Len(results) - Successes(results),
                   results |-> results])

\* another thread sets the cancel event (the Cancel button), or the caller
\* passes an event that is already set
SetCancel ==
    /\ epc \in {"idle", "loop", "running"}
    /\ ~cancel
    /\ cancel' = TRUE
    /\ set_during' = IF epc = "running" THEN idx ELSE None
    /\ UNCHANGED <<tool, work, epc, idx, results, failed, logger, log_calls,
                   log_raised, invoked, op_raised, broke_at, progress,
                   summary, xvars,
                   wvars, rvars>>

\* sys.exit(1) whenever the loop was left before its last item
ExitStatusIfIncomplete == IF Len(summary.results) < Total THEN 1 ELSE 0

\* the status the entry point exits with: export counts the results that
\* are not successful, the other two read summary.failed
ExitStatus ==
    IF tool = "export"
    THEN IF Cardinality({k \in 1..Len(summary.results) :
                            ~summary.results[k].success}) > 0
         THEN 1 ELSE 0
    ELSE IF summary.failed > 0 THEN 1 ELSE 0

\* main() after the execute method has returned
CliExit ==
    /\ epc = "done"
    /\ exit_status = None
    /\ exit_status' = ExitStatus
    /\ UNCHANGED <<tool, work, creation, cancel, epc, idx, results, failed,
                   logger, log_calls, log_raised, invoked, op_raised,
                   broke_at, set_during, progress, summary, ovars, wvars,
                   rvars>>

NextExec ==
    \/ ExportStart \/ DrawingExecuteStart \/ SimplifyRunStart
    \/ CancelBreak \/ ItemBegin \/ ItemEnd
    \/ ExportFinish \/ DrawingExecuteFinish \/ SimplifyRunFinish
    \/ SetCancel
    \/ CliExit

SpecExec == InitExec /\ [][NextExec]_vars

(***************************************************************************)
(* One ExportOrchestrator from its construction: scan() may be called,     *)
(* and may raise, before export() is called with whatever summary the      *)
(* caller holds.                                                           *)
(***************************************************************************)
InitSession ==
    /\ InitExecAfter(<<>>)
    /\ tool = "export"

\* how a scan() can end: InventorApp.connect() raises before self._app is
\* assigned; a later call (get_active_assembly, walk_assembly, the
\* planning) raises; or the summary is returned
ScanOutcomes == {"connect_raised", "raised_after_connect", "returned"}

\* self._app after a scan() that ended with outcome o
AppAfterScan(o) == IF o = "connect_raised" THEN app ELSE "connected"

\* ExportOrchestrator.scan
Scan ==
    /\ tool = "export"
    /\ epc = "idle"
    /\ Len(scan_calls) < MaxScans
    /\ \E o \in ScanOutcomes :
         /\ scan_calls' = Append(scan_calls, o)
         /\ app' = AppAfterScan(o)
    /\ UNCHANGED <<export_raised, svars, tvars, gvars, wvars, rvars, tool,
                   work,
                   creation, cancel, epc, idx, results, failed, logger,
                   log_calls, log_raised, invoked, op_raised, broke_at,
                   set_during, progress, summary, exit_status>>

\* export() leaving by raise InventorError("Must call scan() before export()")
ExportRejected ==
    /\ tool = "export"
    /\ epc = "idle"
    /\ AppMissing
    /\ export_raised' = "InventorError"
    /\ UNCHANGED <<app, scan_calls, svars, tvars, gvars, wvars, rvars, tool,
                   work,
                   creation, cancel, epc, idx, results, failed, logger,
                   log_calls, log_raised, invoked, op_raised, broke_at,
                   set_during, progress, summary, exit_status>>

NextSession ==
    \/ Scan \/ ExportRejected \/ ExportStart
    \/ CancelBreak \/ ItemBegin \/ ItemEnd
    \/ ExportFinish
    \/ SetCancel

SpecSession == InitSession /\ [][NextSession]_vars

\* some scan() on this orchestrator has returned a summary
ScanReturned == \E k \in 1..Len(scan_calls) : scan_calls[k] = "returned"

\* some scan() on this orchestrator has got past InventorApp.connect()
ScanConnected ==
    \E k \in 1..Len(scan_calls) : scan_calls[k] # "connect_raised"

\* export() has not got past its guard: no log file, no progress, no
\* per-item operation, no result
ExportNotEntered ==
    /\ epc = "idle"
    /\ logger = "none"
    /\ log_calls = <<>>
    /\ progress = <<>>
    /\ invoked = <<>>
    /\ results = <<>>

\* a call of export(): it raises at its guard or goes on to its loop
ExportCall == ExportRejected \/ ExportStart

\* C28 as stated: while no scan() has returned a summary (an earlier scan()
\* that raised included), export() raises InventorError before creating a
\* log file, emitting progress or invoking a per-item operation.
C28_ExportOnlyAfterScanReturned ==
    /\ [](~ScanReturned => ExportNotEntered)
    /\ [][(~ScanReturned /\ ExportCall) =>
            (export_raised' = "InventorError")]_vars

\* C28 amended: while no scan() has got past InventorApp.connect() (none
\* called, or each raised in connect), export() raises InventorError before
\* creating a log file, emitting progress or invoking a per-item operation.
C28_ExportOnlyAfterConnect ==
    /\ [](~ScanConnected => ExportNotEntered)
    /\ [][(~ScanConnected /\ ExportCall) =>
            (/\ export_raised' = "InventorError"
             /\ ExportNotEntered')]_vars

\* export() was called after the only scan() raised in connect and left by
\* InventorError, with nothing logged, reported or invoked
C28_Witness ==
    /\ scan_calls = <<"connect_raised">>
    /\ Len(work) > 0
    /\ export_raised = "InventorError"
    /\ ExportNotEntered

(***************************************************************************)
(* sanitize_filename.  A string is the sequence of its characters; "\n"    *)
(* and "\t" stand for the control characters 0x00-0x1f.                    *)
(***************************************************************************)
\* _INVALID_CHARS = re.compile(r'[<>:"/\\|?*\x00-\x1f]')
InvalidChars == {"<", ">", ":", "\"", "/", "\\", "|", "?", "*", "\n", "\t"}

\* _INVALID_CHARS.sub("_", name)
SubInvalid(s) ==
    [k \in 1..Len(s) |-> IF s[k] \in InvalidChars THEN "_" ELSE s[k]]

\* str.rstrip removing the trailing dots only
RStripDots(s) ==
    LET keep == {k \in 1..Len(s) : s[k] # "."}
    IN  IF keep = {} THEN <<>>
        ELSE SubSeq(s, 1, CHOOSE k \in keep : \A j \in keep : j <= k)

\* sanitized.rstrip(". "): everything up to the last character that is
\* neither a dot nor a space
RStrip(s) ==
    LET keep == {k \in 1..Len(s) : s[k] \notin {".", " "}}
    IN  IF keep = {} THEN <<>>
        ELSE SubSeq(s, 1, CHOOSE k \in keep : \A j \in keep : j <= k)

sanitize_filename(s) ==
    LET stripped == RStrip(SubInvalid(s))
    IN  IF stripped # <<>> THEN stripped ELSE <<"_">>

\* the characters the names are drawn from: valid ones, the two that are
\* stripped, invalid punctuation and a control character
NameChars == {"a", "_", ".", " ", "<", "*", "\n"}

Names == UNION {[1..n -> NameChars] : n \in 0..MaxNameLen}

InitSanitize ==
    /\ raw_name \in Names
    /\ sanitized = <<>>
    /\ spc = "idle"
    /\ IdleWalk
    /\ IdleResolve
    /\ IdleExec
    /\ IdleTransport
    /\ IdleGui

\* sanitized = sanitize_filename(name)
Sanitize ==
    /\ spc = "idle"
    /\ sanitized' = sanitize_filename(raw_name)
    /\ spc' = "done"
    /\ UNCHANGED <<raw_name, wvars, rvars, tool, work, creation, cancel, epc,
                   idx, results,
                   failed, logger, log_calls, log_raised, invoked, op_raised,
                   broke_at, set_during, progress, summary, exit_status,
                   tvars, avars, gvars>>

NextSanitize == Sanitize

SpecSanitize == InitSanitize /\ [][NextSanitize]_vars

\* C22: for every input, the empty string and strings of only invalid
\* characters or only dots and spaces included, sanitize_filename returns a
\* non-empty string without any of < > : " / \ | ? * or a control
\* character, that does not end with a dot or a space.
C22_SanitizeTotal ==
    spc = "done" =>
        /\ Len(sanitized) >= 1
        /\ \A k \in 1..Len(sanitized) :
             sanitized[k] \notin
                 {"<", ">", ":", "\"", "/", "\\", "|", "?", "*", "\n", "\t"}
        /\ sanitized[Len(sanitized)] \notin {".", " "}

\* the sanitized form of a three-character name of dots and spaces only
C22_Witness ==
    /\ spc = "done"
    /\ Len(raw_name) = 3
    /\ \A k \in 1..3 : raw_name[k] \in {".", " "}
    /\ sanitized = <<"_">>

(***************************************************************************)
(* NetworkTransport: callers put files on a queue.Queue, one daemon thread *)
(* takes them off and copies them.  A file is named by the number of the   *)
(* enqueue call that passed it.                                            *)
(***************************************************************************)
\* NetworkTransport(network_path): the queue is empty, the worker started
InitTransport ==
    /\ tqueue = <<>>
    /\ thread = "get"
    /\ handed = <<>>
    /\ copy_raised = <<>>
    /\ enqueue_calls = 0
    /\ stop_calls = 0
    /\ put_before_stop = <<>>
    /\ IdleWalk
    /\ IdleResolve
    /\ IdleExec
    /\ IdleSanitize
    /\ IdleGui

\* self._thread.is_alive()
IsAlive == thread \in {"get", "copy"}

\* the files on the queue or already taken off it, in the order of their put
Puts == handed \o SelectSeq(tqueue, LAMBDA x : x # None)

\* enqueue(local_path): ignored when the worker is no longer alive
Enqueue ==
    /\ thread # "none"
    /\ enqueue_calls < MaxFiles
    /\ enqueue_calls' = enqueue_calls + 1
    /\ tqueue' = IF IsAlive THEN Append(tqueue, enqueue_calls + 1) ELSE tqueue
    /\ UNCHANGED <<thread, handed, copy_raised, stop_calls, put_before_stop,
                   svars, avars, gvars, wvars, rvars, tool, work, creation, cancel, epc,
                   idx, results, failed, logger, log_calls, log_raised,
                   invoked, op_raised, broke_at, set_during, progress,
                   summary, exit_status>>

\* stop(timeout): puts the sentinel; join returns after the worker's exit
\* or the timeout, whichever is first
Stop ==
    /\ thread # "none"
    /\ stop_calls < MaxStops
    /\ stop_calls' = stop_calls + 1
    /\ tqueue' = Append(tqueue, None)
    /\ put_before_stop' = IF stop_calls = 0 THEN Puts ELSE put_before_stop
    /\ UNCHANGED <<thread, handed, copy_raised, enqueue_calls,
                   svars, avars, gvars, wvars, rvars, tool, work, creation, cancel, epc,
                   idx, results, failed, logger, log_calls, log_raised,
                   invoked, op_raised, broke_at, set_during, progress,
                   summary, exit_status>>

\* _worker: item = self._queue.get(); break on the sentinel, else the item
\* is handed to shutil.copy2
WorkerGet ==
    /\ thread = "get"
    /\ tqueue # <<>>
    /\ tqueue' = Tail(tqueue)
    /\ IF Head(tqueue) = None
       THEN /\ thread' = "dead"
            /\ UNCHANGED handed
       ELSE /\ thread' = "copy"
            /\ handed' = Append(handed, Head(tqueue))
    /\ UNCHANGED <<copy_raised, enqueue_calls, stop_calls, put_before_stop,
                   svars, avars, gvars, wvars, rvars, tool, work, creation, cancel, epc,
                   idx, results, failed, logger, log_calls, log_raised,
                   invoked, op_raised, broke_at, set_during, progress,
                   summary, exit_status>>

\* the worker after a copy, were an exception to end its loop
AfterCopyExitOnRaise(raised) == IF raised THEN "dead" ELSE "get"

\* the worker after a copy: except Exception logs and the loop goes on
AfterCopy(raised) == "get"

\* _worker: shutil.copy2 returns or raises
WorkerCopy ==
    /\ thread = "copy"
    /\ \E raised \in BOOLEAN :
         /\ copy_raised' = Append(copy_raised, raised)
         /\ thread' = AfterCopy(raised)
    /\ UNCHANGED <<tqueue, handed, enqueue_calls, stop_calls,
                   put_before_stop,
                   svars, avars, gvars, wvars, rvars, tool, work, creation, cancel, epc,
                   idx, results, failed, logger, log_calls, log_raised,
                   invoked, op_raised, broke_at, set_during, progress,
                   summary, exit_status>>

NextTransport == Enqueue \/ Stop \/ WorkerGet \/ WorkerCopy

SpecTransport == InitTransport /\ [][NextTransport]_vars

\* C27: the worker hands the files to the copy step first-in first-out and
\* one at a time; when it has exited, every file enqueued before stop() was
\* called has been handed to the copy step exactly once, in enqueue order;
\* a copy that raises does not end the worker, which goes on to the files
\* behind it.
C27_TransportFifo ==
    /\ [](/\ \A i, j \in 1..Len(handed) : i < j => handed[i] < handed[j]
          /\ Len(copy_raised) = Len(handed) - (IF thread = "copy" THEN 1 ELSE 0)
          /\ (stop_calls > 0) =>
                /\ Len(handed) <= Len(put_before_stop)
                /\ handed = SubSeq(put_before_stop, 1, Len(handed))
          /\ (thread = "dead") =>
                /\ stop_calls > 0
                /\ handed = put_before_stop)
    /\ [][thread = "copy" => thread' \in {"copy", "get"}]_vars

\* the worker has exited after three files were enqueued and stop() called:
\* the copy of the first raised, all three were handed to the copy step
C27_Witness ==
    /\ thread = "dead"
    /\ put_before_stop = <<1, 2, 3>>
    /\ handed = <<1, 2, 3>>
    /\ copy_raised[1]
    /\ ~copy_raised[3]

(***************************************************************************)
(* ExportToolGUI: the UI thread runs the button commands and the queue     *)
(* poller; each worker thread runs one orchestrator scan (and export) and  *)
(* ends by putting one message for the poller.                             *)
(***************************************************************************)
\* the variables of the batch tools
bvars == <<tool, work, creation, cancel, epc, idx, results, failed, logger,
           log_calls, log_raised, invoked, op_raised, broke_at, set_during,
           progress, summary, exit_status>>

\* ExportToolGUI(parent, config): _build_ui and _load_config
InitGui ==
    /\ scan_btn = "normal"
    /\ export_btn = "disabled"
    /\ cancel_btn = "disabled"
    /\ scan_summary = "None"
    /\ output_var \in BOOLEAN
    /\ cancel_event = FALSE
    /\ gqueue = <<>>
    /\ workers = <<>>
    /\ IdleWalk
    /\ IdleResolve
    /\ IdleExec
    /\ IdleSanitize
    /\ IdleTransport

\* what the handlers of the UI thread read and write
Ui == [scan_btn |-> scan_btn, export_btn |-> export_btn,
       cancel_btn |-> cancel_btn, scan_summary |-> scan_summary]

\* _set_working, were it to leave the Scan button as it is
SetWorkingKeepsScan(u, working) ==
    [u EXCEPT !.cancel_btn = IF working THEN "normal" ELSE "disabled",
              !.export_btn = IF working THEN "disabled" ELSE @]

\* _set_working(working)
SetWorking(u, working) ==
    [u EXCEPT !.scan_btn = IF working THEN "disabled" ELSE "normal",
              !.cancel_btn = IF working THEN "normal" ELSE "disabled",
              !.export_btn = IF working THEN "disabled" ELSE @]

\* _on_worker_done
OnWorkerDone(u) == SetWorking(u, FALSE)

\* the messages with which a worker ends
Terminal == {"scan_done", "export_done", "error"}

\* one iteration of the loop of _process_queue on a message of type m
Handle(u, m) ==
    IF m = "scan_done"
    THEN [OnWorkerDone([u EXCEPT !.scan_summary = "set"])
            EXCEPT !.export_btn = "normal"]
    ELSE IF m \in {"export_done", "error"}
    THEN OnWorkerDone(u)
    ELSE u

\* the loop of _process_queue on the messages q, until queue.Empty
RECURSIVE Drain(_, _)
Drain(u, q) == IF q = <<>> THEN u ELSE Drain(Handle(u, Head(q)), Tail(q))

\* the worker threads that have not put their last message
Running == {k \in 1..Len(workers) : workers[k].state = "running"}

\* Thread(target=..., daemon=True).start()
StartWorker(kind) == Append(workers, [kind |-> kind, state |-> "running"])

\* the user edits or browses the output folder
SetOutput ==
    /\ scan_btn # "none"
    /\ output_var' \in BOOLEAN \ {output_var}
    /\ UNCHANGED <<scan_btn, export_btn, cancel_btn, scan_summary,
                   cancel_event, gqueue, workers,
                   svars, tvars, avars, bvars, wvars, rvars>>

\* the Scan button, which Tk invokes only while it is enabled: _on_scan
OnScan ==
    /\ scan_btn = "normal"
    /\ IF ~output_var
       THEN UNCHANGED <<scan_btn, export_btn, cancel_btn, scan_summary,
                        cancel_event, workers>>
       ELSE /\ Len(workers) < MaxWorkers
            /\ LET u == SetWorking([Ui EXCEPT !.scan_summary = "None",
                                              !.export_btn = "disabled"],
                                   TRUE)
               IN  /\ scan_btn' = u.scan_btn
                   /\ export_btn' = u.export_btn
                   /\ cancel_btn' = u.cancel_btn
                   /\ scan_summary' = u.scan_summary
            /\ cancel_event' = FALSE
            /\ workers' = StartWorker("scan")
    /\ UNCHANGED <<output_var, gqueue,
                   svars, tvars, avars, bvars, wvars, rvars>>

\* the Run Export button: _on_export
OnExport ==
    /\ export_btn = "normal"
    /\ IF scan_summary = "None"
       THEN UNCHANGED <<scan_btn, export_btn, cancel_btn, cancel_event,
                        workers>>
       ELSE /\ Len(workers) < MaxWorkers
            /\ LET u == SetWorking(Ui, TRUE)
               IN  /\ scan_btn' = u.scan_btn
                   /\ export_btn' = u.export_btn
                   /\ cancel_btn' = u.cancel_btn
            /\ cancel_event' = FALSE
            /\ workers' = StartWorker("export")
    /\ UNCHANGED <<scan_summary, output_var, gqueue,
                   svars, tvars, avars, bvars, wvars, rvars>>

\* the Cancel button: _on_cancel
OnCancel ==
    /\ cancel_btn = "normal"
    /\ cancel_event' = TRUE
    /\ UNCHANGED <<scan_btn, export_btn, cancel_btn, scan_summary,
                   output_var, gqueue, workers,
                   svars, tvars, avars, bvars, wvars, rvars>>

\* a running worker's orchestrator calls log or set_progress
WorkerMessage ==
    /\ Running # {}
    /\ Len(gqueue) < MaxQueue
    /\ \E m \in {"log", "progress"} : gqueue' = Append(gqueue, m)
    /\ UNCHANGED <<scan_btn, export_btn, cancel_btn, scan_summary,
                   output_var, cancel_event, workers,
                   svars, tvars, avars, bvars, wvars, rvars>>

\* _scan_worker and _export_worker leave the orchestrator: the last call
\* returned, or a call raised and except Exception put the error
WorkerEnd ==
    /\ \E k \in Running :
         /\ workers' = [workers EXCEPT ![k].state = "ended"]
         /\ \E m \in {IF workers[k].kind = "scan" THEN "scan_done"
                                                    ELSE "export_done",
                     "error"} :
              gqueue' = Append(gqueue, m)
    /\ UNCHANGED <<scan_btn, export_btn, cancel_btn, scan_summary,
                   output_var, cancel_event,
                   svars, tvars, avars, bvars, wvars, rvars>>

\* _process_queue: every message waiting is handled, in order
ProcessQueue ==
    /\ gqueue # <<>>
    /\ LET u == Drain(Ui, gqueue)
       IN  /\ scan_btn' = u.scan_btn
           /\ export_btn' = u.export_btn
           /\ cancel_btn' = u.cancel_btn
           /\ scan_summary' = u.scan_summary
    /\ gqueue' = <<>>
    /\ UNCHANGED <<output_var, cancel_event, workers,
                   svars, tvars, avars, bvars, wvars, rvars>>

NextGui ==
    \/ SetOutput \/ OnScan \/ OnExport \/ OnCancel
    \/ WorkerMessage \/ WorkerEnd
    \/ ProcessQueue

SpecGui == InitGui /\ [][NextGui]_vars

\* a worker's last message is waiting for the poller
TerminalPending == \E i \in 1..Len(gqueue) : gqueue[i] \in Terminal

\* C30: in the export tab at most one worker runs the orchestrator at any
\* time, whatever the order of Scan, Run Export and Cancel presses, worker
\* messages and polls: while a worker runs or its last message waits, the
\* Scan and Run Export buttons are disabled, and a step that starts a
\* worker is taken only when every earlier worker has ended and its
\* scan_done, export_done or error message has been handled.
C30_OneWorkerAtATime ==
    /\ [](/\ Cardinality(Running) <= 1
          /\ (Running # {} \/ TerminalPending) =>
                (scan_btn = "disabled" /\ export_btn = "disabled"))
    /\ [][(Len(workers') > Len(workers)) =>
            (Running = {} /\ ~TerminalPending)]_vars

\* a third worker runs: the scan worker's scan_done was handled before Run
\* Export started the second, whose error was handled before Scan started
\* the third, and Cancel was pressed
C30_Witness ==
    /\ Len(workers) = 3
    /\ workers[1] = [kind |-> "scan", state |-> "ended"]
    /\ workers[2] = [kind |-> "export", state |-> "ended"]
    /\ workers[3] = [kind |-> "scan", state |-> "running"]
    /\ cancel_event

(***************************************************************************)
(* Properties of the execute loops                                         *)
(***************************************************************************)
\* the results recorded so far are those of the first items the loop
\* iterates, in order, each reflecting what its operation did
ResultsFollow(list) ==
    /\ Len(results) <= Len(list)
    /\ Len(op_raised) = Len(results)
    /\ \A k \in 1..Len(results) :
         /\ results[k].item = list[k].id
         /\ results[k].success = ~op_raised[k]

\* the operation was invoked once on each of the first n positions, in order
InvokedUpTo(n) ==
    /\ Len(invoked) = n
    /\ \A k \in 1..n : invoked[k] = k - 1

\* C4 as stated: with the cancel signal never set, every item of the input
\* list of export and execute gets exactly one result, in list order,
\* whatever subset of the operations raises.
C4_EveryInputItemHasResult ==
    (epc = "done" /\ ~cancel /\ tool \in {"export", "drawing"}) =>
        /\ Len(results) = Len(work)
        /\ ResultsFollow(work)
        /\ InvokedUpTo(Len(work))

\* C4 as amended: with the cancel signal never set, every item the loop
\* iterates (every item of the list in export, the items whose include flag
\* is set in execute) gets exactly one result, in list order, whatever
\* subset of the operations raises; a raising operation is recorded with
\* success=false and the operation is invoked on every later item.
C4_EverySelectedItemHasResult ==
    (epc = "done" /\ ~cancel /\ tool \in {"export", "drawing"}) =>
        /\ Len(results) = Total
        /\ ResultsFollow(Selected(tool, work))
        /\ InvokedUpTo(Total)

\* a finished, never cancelled run of three items whose first operation
\* raised and whose last succeeded
C4_Witness ==
    /\ epc = "done"
    /\ ~cancel
    /\ tool \in {"export", "drawing"}
    /\ Len(results) = 3
    /\ ~results[1].success
    /\ results[3].success

\* C5: when the check before item k finds the cancel signal set, the loop
\* stops: the next step of the run neither invokes an operation nor records
\* a result nor counts a failure, and from then on the results are exactly
\* those of items 0..k-1 in order, the operation was invoked on exactly those
\* positions, and the failed count is that of the recorded results.
C5_CancelStopsLoop ==
    /\ [][(epc = "loop" /\ cancel) =>
            /\ epc' \in {"loop", "finish"}
            /\ <<results, invoked, failed, idx>>' =
                   <<results, invoked, failed, idx>>]_vars
    /\ [](broke_at # None =>
            /\ epc \in {"finish", "done"}
            /\ Len(results) = broke_at
            /\ ResultsFollow(Selected(tool, work))
            /\ InvokedUpTo(broke_at)
            /\ (epc = "done" /\ tool # "export") =>
                   /\ summary.results = results
                   /\ summary.failed = Len(results) - Successes(results))

\* a finished run of three items that was cancelled before its second item
C5_Witness ==
    /\ epc = "done"
    /\ Total = 3
    /\ broke_at = 1
    /\ Len(results) = 1

\* C6: in every run of execute and run, cancelled ones included, the
\* summary's total equals the number of results recorded in it, and the
\* successful results plus the failed count equal that total.
C6_TotalMatchesResults ==
    (epc = "done" /\ tool \in {"drawing", "simplify"}) =>
        /\ summary.total = Len(summary.results)
        /\ Successes(summary.results) + summary.failed = summary.total

\* the logger was not called between this state and the next
NoLoggerCall == log_calls' = log_calls

\* C7: in export and execute, once a per-item log write has raised no
\* method of the logger is invoked again, and the run goes on: the results
\* are those the operations alone determine, and a run that is not
\* cancelled ends with a result for every item of the loop.
C7_LogFailureIsolated ==
    /\ [][(tool \in {"export", "drawing"} /\ log_raised) => NoLoggerCall]_vars
    /\ []((tool \in {"export", "drawing"} /\ log_raised) =>
            /\ ResultsFollow(Selected(tool, work))
            /\ (epc = "done" /\ broke_at = None) => Len(results) = Total)

\* a finished run of three items whose first log write raised
C7_Witness ==
    /\ epc = "done"
    /\ tool \in {"export", "drawing"}
    /\ log_raised
    /\ Len(results) = 3
    /\ log_calls[Len(log_calls)] = PerItemWrite(tool)
    /\ Cardinality({k \in 1..Len(log_calls) :
                        log_calls[k] = PerItemWrite(tool)}) = 1

\* C8: in run, once log_result has raised no further method of the logger
\* is invoked, for later items or for the final summary.
C8_SimplifyLoggingDisabled ==
    [][(tool = "simplify" /\ log_raised) => NoLoggerCall]_vars

\* C18: progress(i, total) is emitted before the operation is invoked on
\* position i, one final progress(total, total) is emitted after the last
\* operation has finished, in cancelled runs too; the current values never
\* decrease and total is the same in every notification.
C18_ProgressOrder ==
    LET n == Len(invoked)
    IN  /\ Len(progress) = IF epc = "done" THEN n + 1 ELSE n
        /\ \A k \in 1..n : progress[k] = <<invoked[k], Total>>
        /\ epc = "done" =>
              /\ progress[n + 1] = <<Total, Total>>
              /\ Len(results) = n
        /\ \A k \in 1..(Len(progress) - 1) :
              progress[k][1] <= progress[k + 1][1]
        /\ \A k \in 1..Len(progress) : progress[k][2] = Total

\* a finished run of three items, cancelled before its second item, whose
\* notifications were (0, 3) and (3, 3)
C18_Witness ==
    /\ epc = "done"
    /\ broke_at = 1
    /\ progress = << <<0, 3>>, <<3, 3>> >>

\* C19: the operation is invoked at most once per position and on strictly
\* increasing positions, at most one item is running at any time, an item
\* is not started before the result of the one before it is recorded, and
\* a recorded result is never changed or removed.
C19_ItemLifecycle ==
    /\ [](/\ \A j, k \in 1..Len(invoked) : j < k => invoked[j] < invoked[k]
          /\ Len(invoked) - Len(results) \in {0, 1}
          /\ (Len(invoked) - Len(results) = 1) <=> (epc = "running"))
    /\ [][/\ Len(invoked') > Len(invoked) =>
                /\ Len(results) = Len(invoked)
                /\ Len(invoked') = Len(invoked) + 1
           /\ Len(results') >= Len(results)
           /\ SubSeq(results', 1, Len(results)) = results]_vars

\* a finished run of three items: the first failed, the second succeeded,
\* the third was skipped by the cancel check
C19_Witness ==
    /\ epc = "done"
    /\ Total = 3
    /\ broke_at = 2
    /\ Len(results) = 2
    /\ ~results[1].success
    /\ results[2].success

\* C20: when the cancel event is set while the operation on item i runs,
\* the operation is not interrupted: its result is recorded with the
\* outcome the operation had, and the operation is invoked on no later item.
C20_RunningItemNotInterrupted ==
    /\ [][(epc = "running" /\ cancel) =>
            \/ epc' = "running" /\ results' = results /\ invoked' = invoked
            \/ /\ Len(op_raised') = Len(results) + 1
               /\ Len(results') = Len(results) + 1
               /\ SubSeq(results', 1, Len(results)) = results
               /\ results'[Len(results')].item =
                      Selected(tool, work)[idx + 1].id
               /\ results'[Len(results')].success =
                      ~op_raised'[Len(results) + 1]
               /\ invoked' = invoked]_vars
    /\ [](set_during # None =>
            /\ Len(invoked) = set_during + 1
            /\ invoked[Len(invoked)] = set_during
            /\ epc # "running" =>
                  /\ Len(results) = set_during + 1
                  /\ ResultsFollow(Selected(tool, work)))

\* a finished run of three items in which the event was set while the
\* second operation ran, and that operation succeeded
C20_Witness ==
    /\ epc = "done"
    /\ Total = 3
    /\ set_during = 1
    /\ Len(results) = 2
    /\ results[2].success

\* C21: the command-line entry point of each tool exits with status 0 when
\* the batch it ran recorded no failed item and with status 1 when at least
\* one item failed.
C21_ExitStatusReflectsFailures ==
    exit_status # None =>
        exit_status = IF \E k \in 1..Len(results) : ~results[k].success
                      THEN 1 ELSE 0

\* an entry point that exited with status 1 after a batch of three items of
\* which only the second failed
C21_Witness ==
    /\ exit_status = 1
    /\ Len(results) = 3
    /\ results[1].success
    /\ ~results[2].success
    /\ results[3].success

\* C26 as stated: export and execute leave every field of every item of
\* the list they are given as it was, whether the item succeeded, failed or
\* was skipped.
C26_ItemsNotModified ==
    [][(tool \in {"export", "drawing"}) => (work' = work)]_vars

\* C26 as amended: export modifies no item; execute modifies an item only
\* while its operation runs, only when the item needed its drawing created,
\* and then only drawing_path and drawing_status (the created drawing and
\* EXISTING), also when the operation goes on to fail; every other field
\* and every other item of the list stay as they were.
C26_OnlyCreatedDrawingRecorded ==
    [][(tool \in {"export", "drawing"} /\ work' # work) =>
         /\ tool = "drawing"
         /\ epc = "running"
         /\ Len(work') = Len(work)
         /\ \E k \in 1..Len(work) :
              /\ k = Selected(tool, work)[idx + 1].id
              /\ work[k].drawing_status = "NEEDS_CREATION"
              /\ work'[k].drawing_status = "EXISTING"
              /\ work'[k].drawing_path # "None"
              /\ work'[k].id = work[k].id
              /\ work'[k].include = work[k].include
              /\ \A j \in 1..Len(work) : j # k => work'[j] = work[j]]_vars

\* a finished run of execute whose first item had its drawing created and
\* whose second item had its drawing created but failed afterwards
C26_Witness ==
    /\ epc = "done"
    /\ tool = "drawing"
    /\ Len(results) = 2
    /\ results[1].action = "created+revision"
    /\ ~results[2].success
    /\ work[results[2].item].drawing_status = "EXISTING"
    /\ creation = "on"
====
